---- MODULE Spec2Model ----
(***************************************************************************)
(* Model of the log-structured key-value store of package datastore        *)
(* (Db with the writeLoop goroutine, rotation, MergeSegments, recovery)    *)
(* and of its record codec (entry.Encode / Decode / DecodeFromReader).     *)
(* Files are sequences of bytes; strings are sequences of bytes.           *)
(***************************************************************************)
EXTENDS Integers, Sequences, FiniteSets, TLC

(***************************************************************************)
(* Bounds of the model.                                                    *)
(***************************************************************************)
\* number of Put calls issued in one behaviour
MaxPuts == 3
\* number of MergeSegments calls issued in one behaviour
MaxMerges == 1
\* number of injected I/O failures in one behaviour
MaxFaults == 1
\* number of externally corrupted bytes in one behaviour
MaxCorrupt == 1
\* number of Close/Open cycles in one behaviour
MaxReopens == 1

(***************************************************************************)
(* Program constants.                                                      *)
(***************************************************************************)
\* size of the buffer of bufio.NewReader (bufio's default)
defaultBufSize == 4096
\* len(entry.checksum), a [20]byte
checksumLen == 20
\* capacity of writeCh
writeChCap == 100

\* the lengths at which a failing Write of a record of len bytes stops
PartialWrites(len) == 0..(len - 1)

Min(a, b) == IF a < b THEN a ELSE b

Keys == {<<97>>, <<98>>}
\* the value of the i-th Put call: the calls put distinct values, so that
\* every record of the log is told apart
ValueOf(i) == <<48 + i>>
\* a value whose record is two bytes longer than the reader's buffer
BigValue == [i \in 1..(defaultBufSize - 31) |-> 55]
\* the maxSize arguments of OpenWithMaxSize tried by the model
MaxSizes == {10, 68}

(***************************************************************************)
(* crypto/sha1.Sum, abstracted: a 20-byte digest that depends on every     *)
(* byte of the value and on its length (no two values of the model, and no *)
(* value and its corruption, collide).                                     *)
(***************************************************************************)
RECURSIVE MixRange(_, _, _)
MixRange(v, lo, hi) ==
    IF lo > hi THEN 0
    ELSE IF lo = hi THEN (v[lo] * ((lo % 7) + 1)) % 256
    ELSE LET mid == (lo + hi) \div 2
         IN (MixRange(v, lo, mid) + MixRange(v, mid + 1, hi)) % 256

Sum(value) ==
    LET h == MixRange(value, 1, Len(value))
    IN [j \in 1..checksumLen |-> (h + j * (Len(value) + 1)) % 256]

(***************************************************************************)
(* encoding/binary.LittleEndian                                            *)
(***************************************************************************)
\* encoding/binary.BigEndian.PutUint32
PutUint32BigEndian(n) ==
    <<(n \div 16777216) % 256, (n \div 65536) % 256, (n \div 256) % 256, n % 256>>

PutUint32(n) ==
    <<n % 256, (n \div 256) % 256, (n \div 65536) % 256, (n \div 16777216) % 256>>

\* lengths of 2^29 and more are all larger than anything the model holds
Uint32Cap == 2^29

Uint32(b0, b1, b2, b3) ==
    IF b3 >= 32 THEN Uint32Cap
    ELSE b0 + 256 * b1 + 65536 * b2 + 16777216 * b3

(***************************************************************************)
(* entry.Encode                                                            *)
(***************************************************************************)
\* the layout without the checksum: size = kl + vl + 12
EncodePlain(e) ==
    LET kl == Len(e.key)
        vl == Len(e.value)
        size == kl + vl + 12
    IN PutUint32(size) \o PutUint32(kl) \o e.key \o PutUint32(vl) \o e.value

Encode(e) ==
    LET kl == Len(e.key)
        vl == Len(e.value)
        size == kl + vl + 12 + Len(e.checksum)
    IN PutUint32(size) \o PutUint32(kl) \o e.key \o PutUint32(vl)
         \o e.value \o e.checksum

\* the record putInternal builds for (key, value)
NewEntry(key, value) == [key |-> key, value |-> value, checksum |-> Sum(value)]

(***************************************************************************)
(* entry.Decode on a buffer of `size` bytes whose first n bytes are        *)
(* data[pos+1 .. pos+n] and whose other bytes are zero (make([]byte, size) *)
(* filled by a Read that returned n).  A slice or index out of range is a  *)
(* run-time panic.  Read returns at most defaultBufSize bytes, so a string *)
(* decoded with a length beyond that (from bytes that are no length) has   *)
(* only zeros there: the model keeps its first defaultBufSize bytes.       *)
(***************************************************************************)
BufAt(data, pos, n, i) == IF i <= n THEN data[pos + i] ELSE 0

Panicked == [panic |-> TRUE]

\* e.key, e.value and copy(e.checksum[:], input[keyStart+kl+4+valueLen:])
DecodeFields(data, pos, n, size, kl, vl) ==
    IF 12 + kl + vl > size THEN Panicked
    ELSE [panic |-> FALSE,
          key |-> [i \in 1..Min(kl, defaultBufSize) |-> BufAt(data, pos, n, 8 + i)],
          value |-> [i \in 1..Min(vl, defaultBufSize) |->
                        BufAt(data, pos, n, 12 + kl + i)],
          checksum |-> [i \in 1..checksumLen |->
              IF 12 + kl + vl + i <= size
              THEN BufAt(data, pos, n, 12 + kl + vl + i) ELSE 0]]

\* valueLen := Uint32(input[keyStart+kl:])
DecodeValueLen(data, pos, n, size, kl) ==
    IF 8 + kl + 4 > size THEN Panicked
    ELSE DecodeFields(data, pos, n, size, kl,
            Uint32(BufAt(data, pos, n, 9 + kl), BufAt(data, pos, n, 10 + kl),
                   BufAt(data, pos, n, 11 + kl), BufAt(data, pos, n, 12 + kl)))

\* kl := Uint32(input[4:])
Decode(data, pos, n, size) ==
    IF size < 8 THEN Panicked
    ELSE DecodeValueLen(data, pos, n, size,
            Uint32(BufAt(data, pos, n, 5), BufAt(data, pos, n, 6),
                   BufAt(data, pos, n, 7), BufAt(data, pos, n, 8)))

(***************************************************************************)
(* entry.DecodeFromReader on a bufio.Reader over the file `data`.  The     *)
(* reader is [r, w]: the bytes data[r+1 .. w] are buffered and unread, the *)
(* file has been read up to w.  Peek(4) fills the buffer once when fewer   *)
(* than 4 bytes are buffered; Read copies what is buffered and never       *)
(* refills, so it returns fewer bytes than asked when the record is not    *)
(* wholly in the buffer.                                                   *)
(***************************************************************************)
NewReader(position) == [r |-> position, w |-> position]

\* the end of the buffered bytes after in.Peek(4)
Peek(data, rd) ==
    IF rd.w - rd.r >= 4 THEN rd.w
    ELSE IF Len(data) < rd.r THEN rd.r
    ELSE Min(Len(data), rd.r + defaultBufSize)

\* e.Decode(buf) and the return of DecodeFromReader
DecodeRead(rd, w1, n, rec) ==
    IF rec.panic THEN [err |-> "panic", n |-> n, rd |-> rd]
    ELSE [err |-> "nil", n |-> n, rec |-> rec, rd |-> [r |-> rd.r + n, w |-> w1]]

\* buf := make([]byte, size); n, err := in.Read(buf)
DecodeSized(data, rd, w1, size) ==
    DecodeRead(rd, w1, Min(size, w1 - rd.r),
               Decode(data, rd.r, Min(size, w1 - rd.r), size))

DecodePeeked(data, rd, w1) ==
    IF w1 - rd.r < 4 THEN [err |-> "EOF", n |-> 0, rd |-> rd]
    ELSE DecodeSized(data, rd, w1,
            Uint32(data[rd.r + 1], data[rd.r + 2], data[rd.r + 3], data[rd.r + 4]))

DecodeFromReader(data, rd) == DecodePeeked(data, rd, Peek(data, rd))

(***************************************************************************)
(* The decoding loop shared by recover, loadSegment and MergeSegments: one *)
(* bufio.Reader over the whole file, DecodeFromReader until io.EOF.  Each  *)
(* record is returned with the offset the loop has summed up for it.       *)
(***************************************************************************)
RECURSIVE ScanLoop(_, _, _, _)
ScanLoop(data, rd, offset, acc) ==
    LET d == DecodeFromReader(data, rd)
    IN IF d.err = "EOF" THEN [err |-> "nil", recs |-> acc, offset |-> offset]
       ELSE IF d.err # "nil" THEN [err |-> d.err, recs |-> acc, offset |-> offset]
       ELSE ScanLoop(data, d.rd, offset + d.n,
                     Append(acc, [key |-> d.rec.key, value |-> d.rec.value,
                                  checksum |-> d.rec.checksum,
                                  offset |-> offset, n |-> d.n]))

Scan(data) == ScanLoop(data, NewReader(0), 0, <<>>)

\* hashIndex built by index[record.key] = offset over the records in order
EmptyIndex == [k \in {} |-> 0]

IndexOf(recs) ==
    [k \in {recs[i].key : i \in DOMAIN recs} |->
        LET last == CHOOSE i \in DOMAIN recs :
                        /\ recs[i].key = k
                        /\ \A j \in DOMAIN recs : recs[j].key = k => j <= i
        IN recs[last].offset]

(***************************************************************************)
(* Files of the store directory.                                           *)
(***************************************************************************)
NoFile == [exists |-> FALSE, data |-> <<>>]
File(d) == [exists |-> TRUE, data |-> d]

Ext(f, k, v) == [x \in (DOMAIN f) \cup {k} |-> IF x = k THEN v ELSE f[x]]
Drop(f, k) == [x \in (DOMAIN f) \ {k} |-> f[x]]

\* os.OpenFile(path, O_APPEND|O_WRONLY|O_CREATE): creates the file when missing
OpenFile(f) == IF f.exists THEN f ELSE File(<<>>)

(***************************************************************************)
(* Db.loadSegment on the segment file named `path`                         *)
(***************************************************************************)
loadSegment(segs, path) ==
    IF path \notin DOMAIN segs THEN [err |-> "io"]
    ELSE LET s == Scan(segs[path])
         IN IF s.err # "nil" THEN [err |-> s.err]
            ELSE [err |-> "nil", seg |-> [path |-> path, index |-> IndexOf(s.recs)]]

(***************************************************************************)
(* Db.readFromFile: open, seek, DecodeFromReader on a fresh reader,        *)
(* compare the checksum with sha1.Sum(value)                               *)
(***************************************************************************)
readFromFile(f, position) ==
    IF ~f.exists THEN [err |-> "io", value |-> <<>>]
    ELSE LET d == DecodeFromReader(f.data, NewReader(position))
         IN IF d.err # "nil" THEN [err |-> d.err, value |-> <<>>]
            ELSE IF d.rec.checksum # Sum(d.rec.value)
                 THEN [err |-> "checksum", value |-> <<>>]
                 ELSE [err |-> "nil", value |-> d.rec.value]

segmentFile(segs, path) == IF path \in DOMAIN segs THEN File(segs[path]) ELSE NoFile

(***************************************************************************)
(* State.                                                                  *)
(*   disk     the directory: current-data, merged-temp, segment-<ns> files *)
(*            (segs maps the <ns> of a segment file to its bytes)          *)
(*   db       the Db fields: out (is the handle open), outOffset, index,   *)
(*            segments (of [path, index]), maxSize                         *)
(*   phase    "open", "closing" (writeCh closed), "closed", "failed" (Open *)
(*            returned an error), "crashed" (a goroutine panicked)         *)
(*   writeCh  the queue of write requests                                  *)
(*   wr       the writeLoop goroutine: position in putInternal, request,   *)
(*            locals; pre is what Get returned for every key when the      *)
(*            request was taken                                            *)
(*   gt       the caller of Get: position in Get, key, locals, result; acc *)
(*            holds the value of the last Put of the key that had returned *)
(*            nil when Get started and the values of the Puts of the key   *)
(*            in progress then or called since                             *)
(*   mg       the caller of MergeSegments: position, locals, result; pre   *)
(*            is the view and the segments list at the call                *)
(*   gh       history: last (the value of the last Put of a key that       *)
(*            returned nil), hist (every value a Put was called with, per  *)
(*            key), ret (the answer of the Put that returned last: st, was *)
(*            it hit by an injected failure, did every key keep its value),*)
(*            took (the values of the requests in the order the writer     *)
(*            took them), done (how many requests were answered), cl (the  *)
(*            calls of Close on this Db: the result of the first and of    *)
(*            the last one, and pend, how many accepted requests were      *)
(*            unanswered when Close was called)                            *)
(*   cnt      how many Puts, merges, faults, corruptions, reopens so far   *)
(*   now      time.Now().UnixNano(), read once per segment name            *)
(***************************************************************************)
VARIABLES disk, db, phase, writeCh, wr, gt, mg, gh, cnt, now

vars == <<disk, db, phase, writeCh, wr, gt, mg, gh, cnt, now>>

(***************************************************************************)
(* Db.Get as one uninterrupted call: the Active Log's index first (an      *)
(* error of that read is dropped), then the segments from the last to the  *)
(* first, returning whatever the read of the first segment holding the key *)
(* returns.                                                                *)
(***************************************************************************)
GetResult(r) ==
    IF r.err = "nil" THEN [kind |-> "ok", value |-> r.value]
    ELSE IF r.err = "checksum" THEN [kind |-> "integrity", value |-> <<>>]
    ELSE IF r.err = "panic" THEN [kind |-> "panic", value |-> <<>>]
    ELSE [kind |-> "io", value |-> <<>>]

NotFound == [kind |-> "notfound", value |-> <<>>]

RECURSIVE lookupSegments(_, _, _, _)
lookupSegments(segments, segs, key, i) ==
    IF i = 0 THEN NotFound
    ELSE IF key \in DOMAIN segments[i].index
         THEN GetResult(readFromFile(segmentFile(segs, segments[i].path),
                                     segments[i].index[key]))
         ELSE lookupSegments(segments, segs, key, i - 1)

ActiveOr(r, d, fs, key) ==
    IF r.err = "nil" THEN GetResult(r)
    ELSE lookupSegments(d.segments, fs.segs, key, Len(d.segments))

GetIn(d, fs, key) ==
    IF key \in DOMAIN d.index
    THEN ActiveOr(readFromFile(fs.cur, d.index[key]), d, fs, key)
    ELSE lookupSegments(d.segments, fs.segs, key, Len(d.segments))

Get(key) == GetIn(db, disk, key)

\* what Get returns for every key of the model, with Db d on directory fs
ViewOf(d, fs) == [k \in Keys |-> GetIn(d, fs, k)]

View == ViewOf(db, disk)

\* the view of an empty store
NoView == [k \in Keys |-> NotFound]

\* every key that Get returned a value for in view pre has that value in post
Kept(pre, post) == \A k \in Keys : pre[k].kind = "ok" => post[k] = pre[k]

WrIdle == [pc |-> "idle", key |-> <<>>, value |-> <<>>, data |-> <<>>, n |-> 0,
           path |-> 0, pre |-> NoView]

GtIdle == [pc |-> "idle", key |-> <<>>, position |-> 0, i |-> 0, acc |-> {},
           had |-> FALSE, bad |-> FALSE, res |-> NotFound]

NoClose == [first |-> "none", last |-> "none", pend |-> 0]

MgIdle == [pc |-> "idle", rm |-> <<>>, j |-> 0, path |-> 0, res |-> "nil",
           pre |-> [view |-> NoView, segments |-> <<>>]]

(***************************************************************************)
(* OpenWithMaxSize on an empty directory: current-data is created, recover *)
(* and loadSegments find nothing, the writeLoop goroutine is started.  The *)
(* clock is read where all its readings have the same number of digits     *)
(* (as UnixNano has from 2001 to 2286).                                    *)
(***************************************************************************)
InitWith(sizes) ==
    /\ disk = [cur |-> File(<<>>), tmp |-> NoFile, segs |-> [p \in {} |-> <<>>]]
    /\ \E ms \in sizes :
          db = [out |-> TRUE, outOffset |-> 0, index |-> EmptyIndex,
                segments |-> <<>>, maxSize |-> ms]
    /\ phase = "open"
    /\ writeCh = <<>>
    /\ wr = WrIdle
    /\ gt = GtIdle
    /\ mg = MgIdle
    /\ gh = [last |-> [k \in {} |-> <<>>], hist |-> [k \in Keys |-> {}],
             ret |-> [st |-> "none", fault |-> FALSE, same |-> TRUE],
             took |-> <<>>, done |-> 0, cl |-> NoClose]
    /\ cnt = [puts |-> 0, merges |-> 0, faults |-> 0, corrupt |-> 0, reopens |-> 0]
    /\ now = 100

Init == InitWith(MaxSizes)

\* the rwMu lock is held by MergeSegments from its first step to its return
MergeHoldsLock == mg.pc \notin {"idle", "done"}

\* no call is in progress
Idle ==
    /\ wr.pc \in {"idle", "exited"}
    /\ writeCh = <<>>
    /\ gt.pc = "idle"
    /\ mg.pc = "idle"
    /\ phase \in {"open", "closed"}

Running == phase \in {"open", "closing"}

\* the values of the write requests for key k not answered yet
Pending(k) ==
    {writeCh[i].value : i \in {j \in DOMAIN writeCh : writeCh[j].key = k}}
      \cup (IF wr.pc \notin {"idle", "exited"} /\ wr.key = k THEN {wr.value} ELSE {})

(***************************************************************************)
(* Db.Put: send the request to writeCh and wait for the answer on done.    *)
(***************************************************************************)
PutFrom(vals) ==
    /\ phase = "open"
    /\ cnt.puts < MaxPuts
    /\ Len(writeCh) < writeChCap
    /\ \E k \in Keys, v \in vals :
          /\ writeCh' = Append(writeCh, [key |-> k, value |-> v])
          /\ gh' = [gh EXCEPT !.hist[k] = @ \cup {v}]
          /\ gt' = IF gt.pc \notin {"idle", "done"} /\ gt.key = k
                   THEN [gt EXCEPT !.acc = @ \cup {v}] ELSE gt
    /\ cnt' = [cnt EXCEPT !.puts = cnt.puts + 1]
    /\ UNCHANGED <<disk, db, phase, wr, mg, now>>

Put == PutFrom({ValueOf(cnt.puts + 1)})

(***************************************************************************)
(* writeLoop / putInternal, one step per access to shared state.           *)
(***************************************************************************)
\* the request's answer reaches the caller of Put (req.done <- err), which
\* finds the store as (ndb, ndisk)
Reply(err, faulted, ndb, ndisk) ==
    /\ gh' = [gh EXCEPT !.last = IF err THEN @ ELSE Ext(@, wr.key, wr.value),
                        !.ret = [st |-> IF err THEN "err" ELSE "ok",
                                 fault |-> faulted,
                                 same |-> Kept(wr.pre, ViewOf(ndb, ndisk))],
                        !.done = @ + 1]
    /\ wr' = WrIdle

\* a writer that rotates already when the record fills the file exactly
WriterTakeAtLimit ==
    /\ Running
    /\ wr.pc = "idle"
    /\ writeCh # <<>>
    /\ writeCh' = Tail(writeCh)
    /\ IF ~db.out
       THEN /\ gh' = [gh EXCEPT !.ret = [st |-> "err", fault |-> FALSE, same |-> TRUE],
                                !.took = Append(@, Head(writeCh).value),
                                !.done = @ + 1]
            /\ UNCHANGED wr
       ELSE /\ wr' = [wr EXCEPT
                        !.key = Head(writeCh).key,
                        !.value = Head(writeCh).value,
                        !.data = Encode(NewEntry(Head(writeCh).key, Head(writeCh).value)),
                        !.pre = View,
                        !.pc = IF Len(disk.cur.data)
                                    + Len(Head(writeCh).key) + Len(Head(writeCh).value)
                                    + 12 + checksumLen >= db.maxSize
                               THEN "rot_close" ELSE "write"]
            /\ gh' = [gh EXCEPT !.took = Append(@, Head(writeCh).value)]
    /\ UNCHANGED <<disk, db, phase, gt, mg, cnt, now>>

\* for req := range db.writeCh; Encode; db.Size(); the rotation test
WriterTake ==
    /\ Running
    /\ wr.pc = "idle"
    /\ writeCh # <<>>
    /\ writeCh' = Tail(writeCh)
    /\ IF ~db.out
       THEN \* Stat on a closed handle fails: putInternal returns the error
            /\ gh' = [gh EXCEPT !.ret = [st |-> "err", fault |-> FALSE, same |-> TRUE],
                                !.took = Append(@, Head(writeCh).value),
                                !.done = @ + 1]
            /\ UNCHANGED wr
       ELSE /\ wr' = [wr EXCEPT
                        !.key = Head(writeCh).key,
                        !.value = Head(writeCh).value,
                        !.data = Encode(NewEntry(Head(writeCh).key, Head(writeCh).value)),
                        !.pre = View,
                        !.pc = IF Len(disk.cur.data)
                                    + Len(Head(writeCh).key) + Len(Head(writeCh).value)
                                    + 12 + checksumLen > db.maxSize
                               THEN "rot_close" ELSE "write"]
            /\ gh' = [gh EXCEPT !.took = Append(@, Head(writeCh).value)]
    /\ UNCHANGED <<disk, db, phase, gt, mg, cnt, now>>

\* rotateFile: db.out.Close()
RotateClose ==
    /\ Running
    /\ wr.pc = "rot_close"
    /\ db' = [db EXCEPT !.out = FALSE]
    /\ wr' = [wr EXCEPT !.pc = "rot_rename"]
    /\ UNCHANGED <<disk, phase, writeCh, gt, mg, gh, cnt, now>>

\* rotateFile: os.Rename(db.outPath, segmentPath)
RotateRename ==
    /\ Running
    /\ wr.pc = "rot_rename"
    /\ disk.cur.exists
    /\ disk' = [disk EXCEPT !.cur = NoFile, !.segs = Ext(disk.segs, now, disk.cur.data)]
    /\ wr' = [wr EXCEPT !.pc = "rot_load", !.path = now]
    /\ now' = now + 1
    /\ UNCHANGED <<db, phase, writeCh, gt, mg, gh, cnt>>

\* rotateFile: loadSegment(segmentPath); db.segments = append(db.segments, seg)
RotateLoaded(l) ==
    IF l.err = "nil"
    THEN /\ db' = [db EXCEPT !.segments = Append(db.segments, l.seg)]
         /\ wr' = [wr EXCEPT !.pc = "rot_open"]
         /\ UNCHANGED <<gh, phase>>
    ELSE IF l.err = "panic"
    THEN /\ phase' = "crashed"
         /\ UNCHANGED <<db, wr, gh>>
    ELSE /\ UNCHANGED <<db, phase>>
         /\ Reply(TRUE, FALSE, db, disk)

RotateLoad ==
    /\ Running
    /\ wr.pc = "rot_load"
    /\ RotateLoaded(loadSegment(disk.segs, wr.path))
    /\ UNCHANGED <<disk, writeCh, gt, mg, cnt, now>>

\* rotateFile: os.OpenFile(db.outPath, ...); db.out, db.outOffset, db.index
RotateOpen ==
    /\ Running
    /\ wr.pc = "rot_open"
    /\ disk' = [disk EXCEPT !.cur = OpenFile(disk.cur)]
    /\ db' = [db EXCEPT !.out = TRUE, !.outOffset = 0, !.index = EmptyIndex]
    /\ wr' = [wr EXCEPT !.pc = "write"]
    /\ UNCHANGED <<phase, writeCh, gt, mg, gh, cnt, now>>

\* a Write through a handle opened without O_APPEND: the record goes to
\* the start of the file, over what is there
WriteAtStart ==
    /\ Running
    /\ wr.pc = "write"
    /\ disk' = [disk EXCEPT !.cur =
                   File(wr.data \o SubSeq(disk.cur.data, Len(wr.data) + 1,
                                          Len(disk.cur.data)))]
    /\ wr' = [wr EXCEPT !.pc = "update", !.n = Len(wr.data)]
    /\ UNCHANGED <<db, phase, writeCh, gt, mg, gh, cnt, now>>

\* putInternal: n, err := db.out.Write(data), the whole record written
Write ==
    /\ Running
    /\ wr.pc = "write"
    /\ disk' = [disk EXCEPT !.cur = File(disk.cur.data \o wr.data)]
    /\ wr' = [wr EXCEPT !.pc = "update", !.n = Len(wr.data)]
    /\ UNCHANGED <<db, phase, writeCh, gt, mg, gh, cnt, now>>

\* putInternal: rwMu.Lock(); index[key] = outOffset; outOffset += n; Unlock();
\* then writeLoop's req.done <- nil
Updated(ndb) ==
    /\ db' = ndb
    /\ Reply(FALSE, FALSE, ndb, disk)

Update ==
    /\ Running
    /\ wr.pc = "update"
    /\ ~MergeHoldsLock
    /\ Updated([db EXCEPT !.index = Ext(db.index, wr.key, db.outOffset),
                          !.outOffset = db.outOffset + wr.n])
    /\ UNCHANGED <<disk, phase, writeCh, gt, mg, cnt, now>>

(***************************************************************************)
(* Db.Get, one step per access to shared state.                            *)
(***************************************************************************)
\* the record of key k written last, by the order of the log on disk:
\* current-data after the segment files, a newer segment after an older one
HasKey(recs, k) == \E i \in DOMAIN recs : recs[i].key = k

LastRec(recs, k) ==
    recs[CHOOSE i \in DOMAIN recs :
            /\ recs[i].key = k
            /\ \A j \in DOMAIN recs : recs[j].key = k => j <= i]

MostRecentRecord(fs, k) ==
    LET curRecs == IF fs.cur.exists THEN Scan(fs.cur.data).recs ELSE <<>>
        names == {p \in DOMAIN fs.segs : HasKey(Scan(fs.segs[p]).recs, k)}
    IN IF HasKey(curRecs, k)
       THEN [found |-> TRUE, inCur |-> TRUE, path |-> 0, rec |-> LastRec(curRecs, k)]
       ELSE IF names = {} THEN [found |-> FALSE]
       ELSE LET p == CHOOSE q \in names : \A o \in names : o <= q
            IN [found |-> TRUE, inCur |-> FALSE, path |-> p,
                rec |-> LastRec(Scan(fs.segs[p]).recs, k)]

MostRecentCorrupt(k) ==
    LET m == MostRecentRecord(disk, k)
    IN m.found /\ m.rec.checksum # Sum(m.rec.value)

\* rwMu.RLock(); position, ok := db.index[key]; rwMu.RUnlock()
GetStarted(k, ok) ==
    gt' = [pc |-> IF ok THEN "read_active" ELSE "seg_init",
           key |-> k, position |-> IF ok THEN db.index[k] ELSE 0, i |-> 0,
           acc |-> (IF k \in DOMAIN gh.last THEN {gh.last[k]} ELSE {}) \cup Pending(k),
           had |-> k \in DOMAIN gh.last, bad |-> MostRecentCorrupt(k),
           res |-> NotFound]

GetStart ==
    /\ phase = "open"
    /\ gt.pc = "idle"
    /\ ~MergeHoldsLock
    /\ \E k \in Keys : GetStarted(k, k \in DOMAIN db.index)
    /\ UNCHANGED <<disk, db, phase, writeCh, wr, mg, gh, cnt, now>>

\* if ok: readFromFile(db.outPath, position); return the value when err == nil
GetRead(r) ==
    IF r.err = "nil"
    THEN /\ gt' = [gt EXCEPT !.pc = "done", !.res = GetResult(r)]
         /\ UNCHANGED phase
    ELSE IF r.err = "panic"
    THEN /\ gt' = [gt EXCEPT !.pc = "done", !.res = GetResult(r)]
         /\ phase' = "crashed"
    ELSE /\ gt' = [gt EXCEPT !.pc = "seg_init"]
         /\ UNCHANGED phase

GetReadActive ==
    /\ phase # "crashed"
    /\ gt.pc = "read_active"
    /\ GetRead(readFromFile(disk.cur, gt.position))
    /\ UNCHANGED <<disk, db, writeCh, wr, mg, gh, cnt, now>>

\* i := len(db.segments) - 1; i >= 0
GetSegInit ==
    /\ phase # "crashed"
    /\ gt.pc = "seg_init"
    /\ gt' = IF db.segments = <<>>
             THEN [gt EXCEPT !.pc = "done", !.res = NotFound]
             ELSE [gt EXCEPT !.pc = "seg_iter", !.i = Len(db.segments)]
    /\ UNCHANGED <<disk, db, phase, writeCh, wr, mg, gh, cnt, now>>

\* seg := db.segments[i]; on a hit return readFromFile(seg.path, position); i--
GetSegRead(r) ==
    /\ gt' = [gt EXCEPT !.pc = "done", !.res = GetResult(r)]
    /\ phase' = IF r.err = "panic" THEN "crashed" ELSE phase

GetSegIter ==
    /\ phase # "crashed"
    /\ gt.pc = "seg_iter"
    /\ IF gt.i > Len(db.segments)
       THEN \* index out of range
            /\ gt' = [gt EXCEPT !.pc = "done",
                                !.res = [kind |-> "panic", value |-> <<>>]]
            /\ phase' = "crashed"
       ELSE IF gt.key \in DOMAIN db.segments[gt.i].index
       THEN GetSegRead(readFromFile(segmentFile(disk.segs, db.segments[gt.i].path),
                                    db.segments[gt.i].index[gt.key]))
       ELSE /\ gt' = IF gt.i = 1
                     THEN [gt EXCEPT !.pc = "done", !.res = NotFound]
                     ELSE [gt EXCEPT !.i = gt.i - 1]
            /\ UNCHANGED phase
    /\ UNCHANGED <<disk, db, writeCh, wr, mg, gh, cnt, now>>

\* the caller has Get's result
GetReturn ==
    /\ gt.pc = "done"
    /\ gt' = GtIdle
    /\ UNCHANGED <<disk, db, phase, writeCh, wr, mg, gh, cnt, now>>

(***************************************************************************)
(* Db.MergeSegments, holding rwMu from the first step to the return.       *)
(***************************************************************************)
\* the records of the segments in the order of the list, oldest segment first
RECURSIVE segmentRecords(_, _, _)
segmentRecords(segments, segs, i) ==
    IF i > Len(segments) THEN [err |-> "nil", recs |-> <<>>]
    ELSE IF segments[i].path \notin DOMAIN segs THEN [err |-> "io", recs |-> <<>>]
    ELSE LET s == Scan(segs[segments[i].path])
             rest == segmentRecords(segments, segs, i + 1)
         IN IF s.err # "nil" THEN [err |-> s.err, recs |-> <<>>]
            ELSE [err |-> rest.err, recs |-> s.recs \o rest.recs]

\* if _, exists := mergedIndex[record.key]; !exists { tempFile.Write(record.Encode()) }
RECURSIVE mergeWrite(_, _, _, _)
mergeWrite(recs, i, written, out) ==
    IF i > Len(recs) THEN out
    ELSE IF recs[i].key \in written THEN mergeWrite(recs, i + 1, written, out)
    ELSE mergeWrite(recs, i + 1, written \cup {recs[i].key},
                    out \o Encode([key |-> recs[i].key, value |-> recs[i].value,
                                   checksum |-> recs[i].checksum]))


\* the return of MergeSegments (the deferred rwMu.Unlock())
MergeReturn(res) ==
    mg' = [mg EXCEPT !.pc = "done", !.res = res, !.j = 0, !.rm = <<>>, !.path = 0]

\* a MergeSegments that creates merged-temp before it looks at the number
\* of segments
MergeStartEager ==
    /\ phase = "open"
    /\ mg.pc = "idle"
    /\ cnt.merges < MaxMerges
    /\ cnt' = [cnt EXCEPT !.merges = cnt.merges + 1]
    /\ disk' = [disk EXCEPT !.tmp = OpenFile(disk.tmp)]
    /\ mg' = IF Len(db.segments) < 2
             THEN [mg EXCEPT !.pc = "done", !.res = "nil",
                             !.pre = [view |-> View, segments |-> db.segments]]
             ELSE [mg EXCEPT !.pc = "copy", !.j = 0,
                             !.pre = [view |-> View, segments |-> db.segments]]
    /\ UNCHANGED <<db, phase, writeCh, wr, gt, gh, now>>

\* rwMu.Lock(); len(db.segments) < 2; os.OpenFile(tempPath, ...)
MergeStart ==
    /\ phase = "open"
    /\ mg.pc = "idle"
    /\ cnt.merges < MaxMerges
    /\ cnt' = [cnt EXCEPT !.merges = cnt.merges + 1]
    /\ IF Len(db.segments) < 2
       THEN /\ mg' = [mg EXCEPT !.pc = "done", !.res = "nil",
                        !.pre = [view |-> View, segments |-> db.segments]]
            /\ UNCHANGED disk
       ELSE /\ mg' = [mg EXCEPT !.pc = "copy", !.j = 0,
                        !.pre = [view |-> View, segments |-> db.segments]]
            /\ disk' = [disk EXCEPT !.tmp = OpenFile(disk.tmp)]
    /\ UNCHANGED <<db, phase, writeCh, wr, gt, gh, now>>

\* the loop over db.segments writing merged-temp, then tempFile.Close()
MergeCopied(all) ==
    IF all.err = "nil"
    THEN /\ disk' = [disk EXCEPT !.tmp =
                       File(disk.tmp.data \o mergeWrite(all.recs, 1, {}, <<>>))]
         /\ mg' = [mg EXCEPT !.pc = "remove"]
         /\ UNCHANGED phase
    ELSE IF all.err = "panic"
    THEN /\ phase' = "crashed"
         /\ UNCHANGED <<disk, mg>>
    ELSE \* tempFile.Close(); os.Remove(tempPath); return err
         /\ disk' = [disk EXCEPT !.tmp = NoFile]
         /\ MergeReturn("err")
         /\ UNCHANGED phase

MergeCopy ==
    /\ phase # "crashed"
    /\ mg.pc = "copy"
    /\ MergeCopied(segmentRecords(db.segments, disk.segs, 1))
    /\ UNCHANGED <<db, writeCh, wr, gt, gh, cnt, now>>

\* for _, seg := range db.segments { os.Remove(seg.path) }, one file per step
MergeRemoved(rm, j) ==
    IF rm[j] \in DOMAIN disk.segs
    THEN /\ disk' = [disk EXCEPT !.segs = Drop(disk.segs, rm[j])]
         /\ mg' = IF j = Len(rm) THEN [mg EXCEPT !.pc = "rename", !.rm = rm, !.j = j]
                  ELSE [mg EXCEPT !.rm = rm, !.j = j + 1]
    ELSE \* os.Remove fails: os.Remove(tempPath); return err
         /\ disk' = [disk EXCEPT !.tmp = NoFile]
         /\ MergeReturn("err")

MergeRemove ==
    /\ phase # "crashed"
    /\ mg.pc = "remove"
    /\ IF mg.j = 0
       THEN MergeRemoved([i \in DOMAIN db.segments |-> db.segments[i].path], 1)
       ELSE MergeRemoved(mg.rm, mg.j)
    /\ UNCHANGED <<db, phase, writeCh, wr, gt, gh, cnt, now>>

\* os.Rename(tempPath, newSegmentPath)
MergeRename ==
    /\ phase # "crashed"
    /\ mg.pc = "rename"
    /\ disk.tmp.exists
    /\ disk' = [disk EXCEPT !.tmp = NoFile, !.segs = Ext(disk.segs, now, disk.tmp.data)]
    /\ mg' = [mg EXCEPT !.pc = "load", !.path = now]
    /\ now' = now + 1
    /\ UNCHANGED <<db, phase, writeCh, wr, gt, gh, cnt>>

\* loadSegment(newSegmentPath); db.segments = []*Segment{newSeg}; return nil
MergeLoaded(l) ==
    IF l.err = "nil"
    THEN /\ db' = [db EXCEPT !.segments = <<l.seg>>]
         /\ MergeReturn("nil")
         /\ UNCHANGED phase
    ELSE IF l.err = "panic"
    THEN /\ phase' = "crashed"
         /\ UNCHANGED <<db, mg>>
    ELSE /\ MergeReturn("err")
         /\ UNCHANGED <<db, phase>>

MergeLoad ==
    /\ phase # "crashed"
    /\ mg.pc = "load"
    /\ MergeLoaded(loadSegment(disk.segs, mg.path))
    /\ UNCHANGED <<disk, writeCh, wr, gt, gh, cnt, now>>

\* the caller has MergeSegments' result
MergeEnd ==
    /\ mg.pc = "done"
    /\ mg' = MgIdle
    /\ UNCHANGED <<disk, db, phase, writeCh, wr, gt, gh, cnt, now>>

(***************************************************************************)
(* Injected I/O failures: each is the error return of one system call of   *)
(* putInternal, rotateFile or MergeSegments.                               *)
(***************************************************************************)
Fault ==
    /\ cnt.faults < MaxFaults
    /\ cnt' = [cnt EXCEPT !.faults = cnt.faults + 1]

\* db.out.Write(data) fails having written the first n bytes of the record
WriteFailed(ndisk) ==
    /\ disk' = ndisk
    /\ Reply(TRUE, TRUE, db, ndisk)

WriteFail ==
    /\ Running
    /\ wr.pc = "write"
    /\ Fault
    /\ \E n \in PartialWrites(Len(wr.data)) :
          WriteFailed([disk EXCEPT !.cur = File(disk.cur.data \o SubSeq(wr.data, 1, n))])
    /\ UNCHANGED <<db, phase, writeCh, gt, mg, now>>

\* rotateFile: db.out.Close() fails (the descriptor is released all the same)
RotateCloseFailed(ndb) ==
    /\ db' = ndb
    /\ Reply(TRUE, TRUE, ndb, disk)

RotateCloseFail ==
    /\ Running
    /\ wr.pc = "rot_close"
    /\ Fault
    /\ RotateCloseFailed([db EXCEPT !.out = FALSE])
    /\ UNCHANGED <<disk, phase, writeCh, gt, mg, now>>

\* rotateFile: os.Rename fails
RotateRenameFail ==
    /\ Running
    /\ wr.pc = "rot_rename"
    /\ Fault
    /\ Reply(TRUE, TRUE, db, disk)
    /\ UNCHANGED <<disk, db, phase, writeCh, gt, mg, now>>

\* rotateFile: loadSegment fails in os.Open
RotateLoadFail ==
    /\ Running
    /\ wr.pc = "rot_load"
    /\ Fault
    /\ Reply(TRUE, TRUE, db, disk)
    /\ UNCHANGED <<disk, db, phase, writeCh, gt, mg, now>>

\* rotateFile: os.OpenFile(db.outPath, ...) fails
RotateOpenFail ==
    /\ Running
    /\ wr.pc = "rot_open"
    /\ Fault
    /\ Reply(TRUE, TRUE, db, disk)
    /\ UNCHANGED <<disk, db, phase, writeCh, gt, mg, now>>

\* MergeSegments: os.OpenFile(tempPath, ...) fails
MergeStartFail ==
    /\ phase = "open"
    /\ mg.pc = "idle"
    /\ cnt.merges < MaxMerges
    /\ cnt.faults < MaxFaults
    /\ Len(db.segments) >= 2
    /\ cnt' = [cnt EXCEPT !.merges = cnt.merges + 1, !.faults = cnt.faults + 1]
    /\ mg' = [mg EXCEPT !.pc = "done", !.res = "err",
                        !.pre = [view |-> View, segments |-> db.segments]]
    /\ UNCHANGED <<disk, db, phase, writeCh, wr, gt, gh, now>>

\* MergeSegments: os.Open(seg.path), tempFile.Write or tempFile.Close fails:
\* merged-temp is removed
MergeCopyFail ==
    /\ phase # "crashed"
    /\ mg.pc = "copy"
    /\ Fault
    /\ disk' = [disk EXCEPT !.tmp = NoFile]
    /\ MergeReturn("err")
    /\ UNCHANGED <<db, phase, writeCh, wr, gt, gh, now>>

\* MergeSegments: os.Remove(seg.path) fails: merged-temp is removed
MergeRemoveFail ==
    /\ phase # "crashed"
    /\ mg.pc = "remove"
    /\ Fault
    /\ disk' = [disk EXCEPT !.tmp = NoFile]
    /\ MergeReturn("err")
    /\ UNCHANGED <<db, phase, writeCh, wr, gt, gh, now>>

\* MergeSegments: os.Rename(tempPath, newSegmentPath) fails
MergeRenameFail ==
    /\ phase # "crashed"
    /\ mg.pc = "rename"
    /\ Fault
    /\ MergeReturn("err")
    /\ UNCHANGED <<disk, db, phase, writeCh, wr, gt, gh, now>>

\* MergeSegments: loadSegment(newSegmentPath) fails in os.Open
MergeLoadFail ==
    /\ phase # "crashed"
    /\ mg.pc = "load"
    /\ Fault
    /\ MergeReturn("err")
    /\ UNCHANGED <<disk, db, phase, writeCh, wr, gt, gh, now>>

(***************************************************************************)
(* Db.Close and a following OpenWithMaxSize on the same directory.         *)
(***************************************************************************)
\* closeOnce.Do: close(db.writeCh)
CloseStart ==
    /\ phase = "open"
    /\ cnt.reopens < MaxReopens
    /\ phase' = "closing"
    /\ gh' = [gh EXCEPT !.cl.pend = cnt.puts - gh.done]
    /\ UNCHANGED <<disk, db, writeCh, wr, gt, mg, cnt, now>>

\* a writeLoop that ended as soon as the channel is closed, leaving the
\* requests still queued unexecuted
WriterExitEarly ==
    /\ phase = "closing"
    /\ wr.pc = "idle"
    /\ wr' = [wr EXCEPT !.pc = "exited"]
    /\ UNCHANGED <<disk, db, phase, writeCh, gt, mg, gh, cnt, now>>

\* writeLoop: the range over the closed, drained channel ends; wg.Done()
WriterExit ==
    /\ phase = "closing"
    /\ wr.pc = "idle"
    /\ writeCh = <<>>
    /\ wr' = [wr EXCEPT !.pc = "exited"]
    /\ UNCHANGED <<disk, db, phase, writeCh, gt, mg, gh, cnt, now>>

\* the first Close returns err, the result of db.out.Close() (an error on a
\* handle that a failed rotation left closed)
Closed(err) == gh' = [gh EXCEPT !.cl.first = err, !.cl.last = err]

\* closeOnce.Do: db.wg.Wait() has returned; db.out.Close()
CloseFinish ==
    /\ phase = "closing"
    /\ wr.pc = "exited"
    /\ db' = [db EXCEPT !.out = FALSE]
    /\ phase' = "closed"
    /\ Closed(IF db.out THEN "nil" ELSE "err")
    /\ UNCHANGED <<disk, writeCh, wr, gt, mg, cnt, now>>

\* closeOnce.Do: db.out.Close() returns an error; the handle is released
CloseFinishFail ==
    /\ phase = "closing"
    /\ wr.pc = "exited"
    /\ cnt.faults < MaxFaults
    /\ cnt' = [cnt EXCEPT !.faults = cnt.faults + 1]
    /\ db' = [db EXCEPT !.out = FALSE]
    /\ phase' = "closed"
    /\ Closed("err")
    /\ UNCHANGED <<disk, writeCh, wr, gt, mg, now>>

\* a second or later Close: closeOnce.Do does not run the function again,
\* the local err stays nil
CloseAgain ==
    /\ phase = "closed"
    /\ gh' = [gh EXCEPT !.cl.last = "nil"]
    /\ UNCHANGED <<disk, db, phase, writeCh, wr, gt, mg, cnt, now>>

\* Db.Put once close(db.writeCh) has run: the send on the closed channel
\* panics
PutClosed ==
    /\ phase \in {"closing", "closed"}
    /\ cnt.puts < MaxPuts
    /\ cnt' = [cnt EXCEPT !.puts = cnt.puts + 1]
    /\ phase' = "crashed"
    /\ UNCHANGED <<disk, db, writeCh, wr, gt, mg, gh, now>>

\* fmt.Sprintf("%s%d", segmentPrefix, ns): the decimal digits of a name
RECURSIVE Digits(_)
Digits(n) == IF n < 10 THEN <<n>> ELSE Append(Digits(n \div 10), n % 10)

\* the order of sort.Strings on two strings of digits
RECURSIVE LexLess(_, _)
LexLess(a, b) ==
    IF b = <<>> THEN FALSE
    ELSE IF a = <<>> THEN TRUE
    ELSE IF Head(a) # Head(b) THEN Head(a) < Head(b)
    ELSE LexLess(Tail(a), Tail(b))

\* loadSegments: the segment files of the directory after sort.Strings
RECURSIVE SortedNames(_)
SortedNames(names) ==
    IF names = {} THEN <<>>
    ELSE LET first == CHOOSE p \in names :
                          \A q \in names \ {p} : LexLess(Digits(p), Digits(q))
         IN <<first>> \o SortedNames(names \ {first})

\* loadSegments: one loaded segment is appended, an error ends the loop
LoadedThen(l, rest) ==
    IF l.err # "nil" THEN [err |-> l.err, segments |-> <<>>]
    ELSE IF rest.err # "nil" THEN rest
    ELSE [err |-> "nil", segments |-> <<l.seg>> \o rest.segments]

\* loadSegments: loadSegment on every segment file, in the sorted order
RECURSIVE loadSegments(_, _, _)
loadSegments(segs, names, i) ==
    IF i > Len(names) THEN [err |-> "nil", segments |-> <<>>]
    ELSE LoadedThen(loadSegment(segs, names[i]), loadSegments(segs, names, i + 1))

\* the Db that OpenWithMaxSize builds from recover's scan and loadSegments
Opened(ms, rec, ls) ==
    IF rec.err = "panic" \/ ls.err = "panic" THEN [phase |-> "crashed"]
    ELSE IF rec.err # "nil" \/ ls.err # "nil" THEN [phase |-> "failed"]
    ELSE [phase |-> "open",
          db |-> [out |-> TRUE, outOffset |-> rec.offset, index |-> IndexOf(rec.recs),
                  segments |-> ls.segments, maxSize |-> ms]]

OpenStore(o) ==
    /\ phase' = o.phase
    /\ db' = IF o.phase = "open" THEN o.db ELSE db
    /\ wr' = IF o.phase = "open" THEN WrIdle ELSE wr

\* OpenWithMaxSize(dir, ms) after Close: os.OpenFile, recover, loadSegments,
\* go db.writeLoop()
Open ==
    /\ phase = "closed"
    /\ gt.pc = "idle"
    /\ mg.pc = "idle"
    /\ disk' = [disk EXCEPT !.cur = OpenFile(disk.cur)]
    /\ \E ms \in MaxSizes :
          OpenStore(Opened(ms, Scan(disk.cur.data),
                           loadSegments(disk.segs, SortedNames(DOMAIN disk.segs), 1)))
    /\ writeCh' = <<>>
    /\ cnt' = [cnt EXCEPT !.reopens = cnt.reopens + 1]
    /\ gh' = [gh EXCEPT !.cl = NoClose]
    /\ UNCHANGED <<gt, mg, now>>

(***************************************************************************)
(* A byte of the stored record written last for key k is changed from      *)
(* outside the store (XOR 0xFF): the first byte of its value, or the last  *)
(* byte of its checksum.                                                   *)
(***************************************************************************)
FlipAt(data, i) == [data EXCEPT ![i] = 255 - data[i]]

CorruptRecord(m, at) ==
    disk' = IF m.inCur
            THEN [disk EXCEPT !.cur = File(FlipAt(disk.cur.data, m.rec.offset + at))]
            ELSE [disk EXCEPT !.segs = Ext(disk.segs, m.path,
                                           FlipAt(disk.segs[m.path], m.rec.offset + at))]

CorruptFound(m) ==
    /\ m.found
    /\ Len(m.rec.value) > 0
    /\ m.rec.n = Len(m.rec.key) + Len(m.rec.value) + 12 + checksumLen
    /\ \E at \in {12 + Len(m.rec.key) + 1, m.rec.n} : CorruptRecord(m, at)

Corrupt ==
    /\ Idle
    /\ cnt.corrupt < MaxCorrupt
    /\ \E k \in Keys : CorruptFound(MostRecentRecord(disk, k))
    /\ cnt' = [cnt EXCEPT !.corrupt = cnt.corrupt + 1]
    /\ UNCHANGED <<db, phase, writeCh, wr, gt, mg, gh, now>>

PutSteps == WriterTake \/ RotateClose \/ RotateRename \/ RotateLoad
              \/ RotateOpen \/ Write \/ Update

GetSteps == GetReadActive \/ GetSegInit \/ GetSegIter \/ GetReturn

MergeSteps == MergeCopy \/ MergeRemove \/ MergeRename \/ MergeLoad \/ MergeEnd

(***************************************************************************)
(* Spec: any number of callers of Put, a caller of Get and a caller of     *)
(* MergeSegments run concurrently with the writeLoop goroutine.            *)
(***************************************************************************)
Next == Put \/ GetStart \/ MergeStart \/ PutSteps \/ GetSteps \/ MergeSteps

Spec == Init /\ [][Next]_vars

(***************************************************************************)
(* SpecSeq: a single caller, one call at a time (a call starts when no     *)
(* other is in progress): Put, Get, MergeSegments, Close followed by Open. *)
(***************************************************************************)
SeqPut == Idle /\ Put

SeqGet == Idle /\ GetStart

SeqMerge == Idle /\ MergeStart

SeqClose == Idle /\ CloseStart

Reopen == WriterExit \/ CloseFinish \/ Open

NextSeq == SeqPut \/ SeqGet \/ SeqMerge \/ SeqClose \/ Reopen
             \/ PutSteps \/ GetSteps \/ MergeSteps

SpecSeq == Init /\ [][NextSeq]_vars

(***************************************************************************)
(* SpecFault: the single caller of SpecSeq, with I/O failures.             *)
(***************************************************************************)
Faults == WriteFail \/ RotateCloseFail \/ RotateRenameFail \/ RotateLoadFail
            \/ RotateOpenFail \/ MergeCopyFail \/ MergeRemoveFail
            \/ MergeRenameFail \/ MergeLoadFail

SeqMergeFail == Idle /\ MergeStartFail

NextFault == SeqPut \/ SeqGet \/ SeqMerge \/ SeqMergeFail \/ SeqClose \/ Reopen
               \/ PutSteps \/ GetSteps \/ MergeSteps \/ Faults

SpecFault == Init /\ [][NextFault]_vars

(***************************************************************************)
(* SpecCorrupt: the single caller of Put and Get, Close followed by Open,  *)
(* and the corruption of a stored byte.                                    *)
(***************************************************************************)
NextCorrupt == SeqPut \/ SeqGet \/ SeqClose \/ Reopen \/ Corrupt
                 \/ PutSteps \/ GetSteps

SpecCorrupt == Init /\ [][NextCorrupt]_vars

(***************************************************************************)
(* SpecBig: a single caller of Put and Get on a store opened with          *)
(* maxSize 10, with values that make a record longer than the buffer of    *)
(* the bufio.Reader.                                                       *)
(***************************************************************************)
InitBig == InitWith({10})

SeqPutBig == Idle /\ PutFrom({ValueOf(cnt.puts + 1), BigValue})

NextBig == SeqPutBig \/ SeqGet \/ PutSteps \/ GetSteps

SpecBig == InitBig /\ [][NextBig]_vars

(***************************************************************************)
(* SpecRW: callers of Put and a caller of Get run concurrently with the    *)
(* writeLoop goroutine; MergeSegments is not called.                       *)
(***************************************************************************)
NextRW == Put \/ GetStart \/ PutSteps \/ GetSteps

SpecRW == Init /\ [][NextRW]_vars

(***************************************************************************)
(* SpecClose: callers of Put run concurrently with the writeLoop goroutine *)
(* and with callers of Close (a first Close, whose db.out.Close() may      *)
(* fail, and later ones); Put is also called on the closed store, and the  *)
(* directory is opened again.                                              *)
(***************************************************************************)
NextClose == Put \/ PutSteps \/ CloseStart \/ WriterExit \/ CloseFinish
               \/ CloseFinishFail \/ CloseAgain \/ PutClosed \/ Open

SpecClose == Init /\ [][NextClose]_vars

(***************************************************************************)
(* The properties of the store.                                            *)
(***************************************************************************)
Found(v) == [kind |-> "ok", value |-> v]

\* C1: with one caller, Puts that all succeed, any maxSize and no merge, a
\* Get(k) of a key put before returns the value of the last successful
\* Put(k, .), for values of any length
C1_LatestWins ==
    (gt.pc = "done" /\ gt.had) => gt.res = Found(gh.last[gt.key])

\* C2: when MergeSegments has returned nil, Get returns for every key what
\* it returned immediately before the call
C2_MergeKeepsGet ==
    (mg.pc = "done" /\ mg.res = "nil") => View = mg.pre.view

\* C3: a Get(k) that starts after a Put(k, v) has returned nil returns v or
\* a value put to k later, whatever Puts, rotations and merges run with it;
\* it returns neither NotFound nor an error
C3_ReadYourWrites ==
    (gt.pc = "done" /\ gt.had) => (gt.res.kind = "ok" /\ gt.res.value \in gt.acc)

\* C4: a Get(k) that returns a value, while Puts and rotations run with it,
\* returns a value that some Put was called with for k
C4_OwnValue ==
    (gt.pc = "done" /\ gt.res.kind = "ok") => gt.res.value \in gh.hist[gt.key]

\* C5: when Open returns the store reopened after Close, following
\* successful Puts, rotations and merges, Get returns for every key ever
\* written the value of its last successful Put
C5_Durable ==
    [][(phase = "closed" /\ phase' = "open")
          => \A k \in DOMAIN gh.last : GetIn(db', disk', k) = Found(gh.last[k])]_vars

\* C6: a Get(k) called when the most recent record of k on disk has a value
\* that does not hash to its checksum returns the integrity error, not
\* NotFound and not an older value
C6_IntegrityError ==
    (gt.pc = "done" /\ gt.bad) => gt.res.kind = "integrity"

\* C7: when MergeSegments has returned an error, the segments list is what
\* it was before the call and the directory holds no merged-temp
C7_FailedMergeCleans ==
    (mg.pc = "done" /\ mg.res = "err")
        => (db.segments = mg.pre.segments /\ ~disk.tmp.exists)

\* C8: when MergeSegments has returned an error, every key that Get
\* returned a value for before the call has the same value
C8_FailedMergeKeeps ==
    (mg.pc = "done" /\ mg.res = "err") => Kept(mg.pre.view, View)

\* C9: a Put returns an error only when an I/O failure hit that very Put
\* (an earlier failure breaks no later Put), and when it returned, every
\* key that Get returned a value for before it had the same value
C9_FailedPutKeeps ==
    gh.ret.st = "err" => (gh.ret.fault /\ gh.ret.same)

\* C10: whenever the store is open and the writer is between two requests,
\* outOffset is the length of current-data, also after Open on an existing
\* file and after a Put whose Write failed part-way
C10_OffsetIsLength ==
    (phase = "open" /\ db.out /\ wr.pc = "idle") => db.outOffset = Len(disk.cur.data)

(***************************************************************************)
(* A file that ends in a partial (torn) record: whole records, each with   *)
(* the layout of Encode and a checksum that fits its value, followed by at *)
(* least one byte and fewer bytes than the size the last record announces. *)
(***************************************************************************)
WholeRecord(rec, size) ==
    /\ ~rec.panic
    /\ Len(rec.key) + Len(rec.value) + 12 + checksumLen = size
    /\ rec.checksum = Sum(rec.value)

RECURSIVE TornFrom(_, _)
TornSized(data, o, size) ==
    IF Len(data) - o < size THEN TRUE
    ELSE /\ size >= 12 + checksumLen
         /\ WholeRecord(Decode(data, o, size, size), size)
         /\ TornFrom(data, o + size)

TornFrom(data, o) ==
    IF Len(data) = o THEN FALSE
    ELSE IF Len(data) - o < 4 THEN TRUE
    ELSE TornSized(data, o, Uint32(data[o + 1], data[o + 2], data[o + 3], data[o + 4]))

\* C11: Open on a directory whose current-data ends in a torn record, of
\* any length from 1 byte to one byte less than the record, does not
\* return an open store
C11_TornOpenFails ==
    [][(phase = "closed" /\ TornFrom(disk.cur.data, 0)) => phase' # "open"]_vars

\* C12: a Put called on a store whose Close has returned gives its caller
\* an error and appends nothing; the process does not crash
C12_PutOnClosedFails ==
    [][(phase = "closed" /\ cnt.puts' # cnt.puts)
          => (phase' # "crashed" /\ gh'.ret.st = "err" /\ disk' = disk)]_vars

\* C13: every second or later Close returns what the first Close returned
C13_CloseSameResult ==
    gh.cl.last = gh.cl.first

\* C14: when Close has returned (and with it the Active Log handle is
\* released), every request accepted into writeCh has been executed by the
\* writer and answered; none is left in the queue
C14_CloseDrains ==
    phase = "closed" => (writeCh = <<>> /\ gh.done = cnt.puts)

\* Close has returned after a call that found accepted requests unanswered
C14_Drained ==
    phase = "closed" /\ gh.cl.pend > 0 /\ gh.done = cnt.puts

\* C15: while MergeSegments holds its lock no Put makes progress: nothing
\* is appended to current-data, no rotation happens and the writer does not
\* change the segments list
C15_MergeBlocksWrites ==
    [][(MergeHoldsLock /\ MergeHoldsLock')
          => (disk'.cur = disk.cur /\ db'.segments = db.segments)]_vars

(***************************************************************************)
(* The log: the values of the records of the segment files, the files in   *)
(* the order of their names, followed by those of current-data.            *)
(***************************************************************************)
ValuesOf(recs) == [i \in DOMAIN recs |-> recs[i].value]

RECURSIVE SegmentValues(_, _, _)
SegmentValues(segs, names, i) ==
    IF i > Len(names) THEN <<>>
    ELSE ValuesOf(Scan(segs[names[i]]).recs) \o SegmentValues(segs, names, i + 1)

Log(fs) ==
    SegmentValues(fs.segs, SortedNames(DOMAIN fs.segs), 1)
      \o ValuesOf(IF fs.cur.exists THEN Scan(fs.cur.data).recs ELSE <<>>)

\* C16: with any number of concurrent callers of Put, at most one request
\* is taken from the queue and not yet answered, and the records are in the
\* log in the order in which the writer took their requests
C16_SingleWriterOrder ==
    /\ Len(gh.took) - gh.done \in {0, 1}
    /\ (Len(gh.took) - gh.done = 1) <=> (wr.pc \notin {"idle", "exited"})
    /\ Log(disk) \in {gh.took, SubSeq(gh.took, 1, Len(gh.took) - 1)}

\* a record is being appended while an earlier one is in the log and a
\* later request waits in the queue
C16_Queued ==
    wr.pc = "write" /\ Len(Log(disk)) >= 1 /\ writeCh # <<>>

\* C17: every Put on an open store that is not being closed returns in
\* the end, whatever Puts, Gets and merges run beside it; so a Put that
\* has not returned is never left in a process that a panic has ended,
\* where no step can answer it any more
C17_PutReturns == (gh.done < cnt.puts) => phase # "crashed"

\* C18: when a merge of two or more segments returns success, the list of
\* segments has one element, its file is the merged one and the only
\* segment file, and none of the files of the old segments exists
C18_MergedOne ==
    [][(mg.pc = "load" /\ mg'.pc = "done" /\ mg'.res = "nil")
          => (/\ Len(db'.segments) = 1
              /\ db'.segments[1].path = mg.path
              /\ DOMAIN disk'.segs = {mg.path}
              /\ \A i \in DOMAIN mg.pre.segments :
                    mg.pre.segments[i].path \notin DOMAIN disk'.segs)]_vars

\* C19: MergeSegments called with fewer than two segments returns success
\* at once and changes nothing: no merged-temp is created, and the segments
\* list, the segment files, current-data, the offset and the index are as
\* they were
C19_SmallMergeNoOp ==
    [][(mg.pc = "idle" /\ mg'.pc # "idle" /\ Len(db.segments) < 2)
          => (/\ mg'.pc = "done" /\ mg'.res = "nil"
              /\ disk' = disk
              /\ db' = db)]_vars

\* a merge has returned success on a store of one segment, and there is no
\* merged-temp
C19_SmallMerged ==
    /\ mg.pc = "done" /\ mg.res = "nil"
    /\ Len(mg.pre.segments) = 1
    /\ ~disk.tmp.exists

C21_SizeGrowth ==
    [][/\ (wr.pc = "write" /\ wr'.pc = "update")
            => Len(disk'.cur.data)
                 = Len(disk.cur.data) + Len(wr.key) + Len(wr.value) + 32
       /\ (gt' # gt \/ mg' # mg) => disk'.cur = disk.cur
       /\ (wr.pc \in {"idle", "update"}) => disk'.cur = disk.cur]_vars

\* a Put that did not rotate has written its record after another one
C21_Grown ==
    /\ wr.pc = "update" /\ wr.path = 0
    /\ Len(disk.cur.data) = 2 * (Len(wr.key) + Len(wr.value) + 32)

(***************************************************************************)
(* SpecCodec: the codec on its own, as TestEntry_Encode and TestReadValue  *)
(* use it.  wr holds the entry e under test, the bytes written to the      *)
(* stream before its record, and Encode's result; disk.cur is the stream:  *)
(* those bytes, the record, and one more record after it; gt holds what    *)
(* Decode and DecodeFromReader returned.                                   *)
(***************************************************************************)
MaxKeyLen == 2
MaxValueLen == 2

Bytes(n, b) == [i \in 1..n |-> b + i]

CodecKeys == {Bytes(n, 96) : n \in 0..MaxKeyLen}
CodecValues == {Bytes(n, 47) : n \in 0..MaxValueLen} \cup {BigValue}
Checksums == {Sum(<<>>), [j \in 1..checksumLen |-> 0], [j \in 1..checksumLen |-> 255]}
Entries == [key : CodecKeys, value : CodecValues, checksum : Checksums]

\* the stream before the record under test: nothing, or one short record
Before == {<<>>, Encode(NewEntry(<<97>>, <<48>>))}
\* the record that follows it
After == Encode(NewEntry(<<98>>, <<49>>))

InitCodec ==
    /\ disk = [cur |-> File(<<>>), tmp |-> NoFile, segs |-> [p \in {} |-> <<>>]]
    /\ db = [out |-> TRUE, outOffset |-> 0, index |-> EmptyIndex,
             segments |-> <<>>, maxSize |-> 10]
    /\ phase = "open"
    /\ writeCh = <<>>
    /\ \E e \in Entries, b \in Before :
          wr = [pc |-> "entry", e |-> e, before |-> b, data |-> <<>>]
    /\ gt = [decoded |-> FALSE, dec |-> Panicked, read |-> FALSE,
             in |-> NewReader(0), res |-> [err |-> "none"]]
    /\ mg = MgIdle
    /\ gh = [last |-> [k \in {} |-> <<>>], hist |-> [k \in Keys |-> {}],
             ret |-> [st |-> "none", fault |-> FALSE, same |-> TRUE],
             took |-> <<>>, done |-> 0, cl |-> NoClose]
    /\ cnt = [puts |-> 0, merges |-> 0, faults |-> 0, corrupt |-> 0, reopens |-> 0]
    /\ now = 100

\* originalBytes := a.Encode(), and the stream that holds them
EntryEncode ==
    /\ wr.pc = "entry"
    /\ wr' = [wr EXCEPT !.pc = "encoded", !.data = Encode(wr.e)]
    /\ disk' = [disk EXCEPT !.cur = File(wr.before \o Encode(wr.e) \o After)]
    /\ UNCHANGED <<db, phase, writeCh, gt, mg, gh, cnt, now>>

\* b.Decode(originalBytes)
EntryDecode ==
    /\ wr.pc = "encoded"
    /\ ~gt.decoded
    /\ gt' = [gt EXCEPT !.decoded = TRUE,
                        !.dec = Decode(wr.data, 0, Len(wr.data), Len(wr.data))]
    /\ UNCHANGED <<disk, db, phase, writeCh, wr, mg, gh, cnt, now>>

\* bufio.NewReader over the stream, read up to the record under test
Positioned(data, before) ==
    IF before = <<>> THEN NewReader(0)
    ELSE DecodeFromReader(data, NewReader(0)).rd

\* n, err := b.DecodeFromReader(in)
EntryDecodeFromReader ==
    /\ wr.pc = "encoded"
    /\ ~gt.read
    /\ gt' = [gt EXCEPT !.read = TRUE,
                        !.in = Positioned(disk.cur.data, wr.before),
                        !.res = DecodeFromReader(disk.cur.data,
                                     Positioned(disk.cur.data, wr.before))]
    /\ UNCHANGED <<disk, db, phase, writeCh, wr, mg, gh, cnt, now>>

NextCodec == EntryEncode \/ EntryDecode \/ EntryDecodeFromReader

SpecCodec == InitCodec /\ [][NextCodec]_vars

\* C22: Decode of Encode's result gives back the key, the value and the
\* checksum, for every key and value (the empty ones too) and every
\* 20-byte checksum
C22_RoundTrip ==
    gt.decoded =>
       /\ ~gt.dec.panic
       /\ gt.dec.key = wr.e.key
       /\ gt.dec.value = wr.e.value
       /\ gt.dec.checksum = wr.e.checksum

\* an entry with the empty key, the empty value and a checksum of 255s has
\* been encoded and decoded
C22_EmptyDecoded ==
    /\ gt.decoded
    /\ wr.e.key = <<>> /\ wr.e.value = <<>>
    /\ wr.e.checksum = [j \in 1..checksumLen |-> 255]

\* C23: DecodeFromReader on a buffered reader that stands at the start of
\* Encode(r) returns no error, yields r, reports len(Encode(r)) bytes
\* consumed, and leaves the reader at the start of the next record, for
\* records of every size, first in the stream or not
C23_ReaderRoundTrip ==
    (gt.read /\ gt.in.r = Len(wr.before)) =>
       /\ gt.res.err = "nil"
       /\ gt.res.rec.key = wr.e.key
       /\ gt.res.rec.value = wr.e.value
       /\ gt.res.rec.checksum = wr.e.checksum
       /\ gt.res.n = Len(wr.data)
       /\ gt.res.rd.r = Len(wr.before) + Len(wr.data)

\* the merged file holds one record for each key of the segments, with the
\* value of the key's last record in the newest segment that has the key;
\* `all` are the records of the segments, oldest segment first
LatestPerKey(merged, all) ==
    /\ {merged[i].key : i \in DOMAIN merged} = {all[i].key : i \in DOMAIN all}
    /\ \A i, j \in DOMAIN merged : merged[i].key = merged[j].key => i = j
    /\ \A i \in DOMAIN merged : merged[i].value = LastRec(all, merged[i].key).value

\* C24: the file MergeSegments writes has exactly one record for each key
\* that occurs in a segment, and it carries the value of the newest segment
\* that has the key (of the last record for the key in that segment)
C24_MergedHasLatest ==
    [][(mg.pc = "copy" /\ mg'.pc = "remove")
          => LatestPerKey(Scan(disk'.tmp.data).recs,
                          segmentRecords(db.segments, disk.segs, 1).recs)]_vars

(***************************************************************************)
(* Offset soundness: an index entry (k -> o) of a file is sound when the   *)
(* file exists and a whole record with key k starts at byte o.             *)
(***************************************************************************)
KeyIs(rec, size, k) ==
    /\ ~rec.panic
    /\ Len(rec.key) + Len(rec.value) + 12 + checksumLen = size
    /\ rec.key = k

RecordAt(data, o, size, k) ==
    /\ size >= 12 + checksumLen
    /\ Len(data) - o >= size
    /\ KeyIs(Decode(data, o, size, size), size, k)

SoundAt(f, o, k) ==
    /\ f.exists
    /\ o + 4 <= Len(f.data)
    /\ RecordAt(f.data, o,
                Uint32(f.data[o + 1], f.data[o + 2], f.data[o + 3], f.data[o + 4]), k)

IndexSound(d, fs) ==
    /\ \A k \in DOMAIN d.index : SoundAt(fs.cur, d.index[k], k)
    /\ \A i \in DOMAIN d.segments : \A k \in DOMAIN d.segments[i].index :
          /\ d.segments[i].path \in DOMAIN fs.segs
          /\ SoundAt(File(fs.segs[d.segments[i].path]), d.segments[i].index[k], k)

\* C25: whenever the open store is at rest, after Open, after a Put that
\* succeeded or failed, after a rotation and after a merge, every entry of
\* the active log's index and of every segment's index names a file that
\* exists and an offset at which a whole record with the entry's key starts
C25_OffsetsSound == (Idle /\ phase = "open") => IndexSound(db, disk)

\* the segment seg gives, for every key of the index idx of the file
\* sealed as `path`, what that index gave
SegmentCovers(seg, idx, fs, path) ==
    \A k \in DOMAIN idx :
       /\ k \in DOMAIN seg.index
       /\ readFromFile(segmentFile(fs.segs, seg.path), seg.index[k])
            = readFromFile(segmentFile(fs.segs, path), idx[k])

\* C26: a successful rotation appends one segment to the list and leaves
\* the older ones as they were and in their order; when it ends, the newest
\* segment of the list has every key the active log's index had, with the
\* same value, the active log's index is empty, its offset is 0 and
\* current-data is empty
C26_RotationKeeps ==
    [][/\ (wr.pc = "rot_load" /\ wr'.pc = "rot_open")
            => /\ Len(db'.segments) = Len(db.segments) + 1
               /\ SubSeq(db'.segments, 1, Len(db.segments)) = db.segments
       /\ (wr.pc = "rot_open" /\ wr'.pc = "write")
            => /\ db.segments # <<>>
               /\ SegmentCovers(db.segments[Len(db.segments)], db.index, disk, wr.path)
               /\ db'.index = EmptyIndex
               /\ db'.outOffset = 0
               /\ disk'.cur = File(<<>>)]_vars

\* C27: whenever the open store is at rest, the segment files in the
\* directory are exactly the files of the segments of the list
C27_FilesAreListed ==
    (Idle /\ phase = "open")
       => DOMAIN disk.segs = {db.segments[i].path : i \in DOMAIN db.segments}

\* the file is one record: its size prefix is its length
OneRecord(data) ==
    /\ Len(data) >= 4
    /\ Uint32(data[1], data[2], data[3], data[4]) = Len(data)

\* C28: as long as no write has failed, current-data of the open store is
\* not longer than maxSize or is one record alone; and a Put that goes on
\* to write without rotating has found room for its record, so the Put
\* after an oversized record rotates
C28_OverOnlyAlone ==
    (cnt.faults = 0 /\ phase = "open") =>
       /\ disk.cur.exists
            => (Len(disk.cur.data) <= db.maxSize \/ OneRecord(disk.cur.data))
       /\ (wr.pc = "write" /\ wr.path = 0)
            => Len(disk.cur.data) + Len(wr.data) <= db.maxSize

====
